---- MODULE Spec2Model ----
(***************************************************************************)
(* Model of the Adzuna MCP server (src/server.py): the module-level        *)
(* credential check, the request dispatcher make_request, split at its     *)
(* single suspension point (await client.get), and the seven tool wrappers *)
(* that assemble a parameter mapping and forward to the dispatcher.        *)
(***************************************************************************)
EXTENDS Integers, Sequences, FiniteSets, TLC

VARIABLES env, proc, startup_error, ADZUNA_APP_ID, ADZUNA_APP_KEY, inv

vars == <<env, proc, startup_error, ADZUNA_APP_ID, ADZUNA_APP_KEY, inv>>

\* At most this many optional arguments are passed explicitly in one call.
MaxOptionalArgs == 3

(***************************************************************************)
(* Python values, tagged with their type, and the operations the code      *)
(* applies to them.                                                        *)
(***************************************************************************)
PyNone == <<"None">>

PyStr(s) == <<"str", s>>

PyInt(n) == <<"int", n>>

PyBool(b) == <<"bool", b>>

PyDict(f) == <<"dict", f>>

PyList(s) == <<"list", s>>

EmptyMap == [k \in {} |-> PyNone]

\* Python truth value testing, as applied by `if x:` and `not x`.
Truthy(v) ==
  CASE v[1] = "None" -> FALSE
    [] v[1] = "str"  -> v[2] # ""
    [] v[1] = "int"  -> v[2] # 0
    [] v[1] = "bool" -> v[2]
    [] v[1] = "dict" -> DOMAIN v[2] # {}
    [] v[1] = "list" -> Len(v[2]) # 0

\* str(v), as applied by an f-string replacement field.
Str(v) ==
  CASE v[1] = "None" -> "None"
    [] v[1] = "str"  -> v[2]
    [] v[1] = "int"  -> ToString(v[2])
    [] v[1] = "bool" -> IF v[2] THEN "True" ELSE "False"

\* d[k] = v
DictSet(d, k, v) == [x \in DOMAIN d \cup {k} |-> IF x = k THEN v ELSE d[x]]

\* d.update(e)
DictUpdate(d, e) ==
  [x \in DOMAIN d \cup DOMAIN e |-> IF x \in DOMAIN e THEN e[x] ELSE d[x]]

\* d.get(k, default)
DictGet(d, k, default) == IF k \in DOMAIN d THEN d[k] ELSE default

\* if cond is not None: d[k] = v
SetIf_NotNone(d, cond, k, v) == IF cond # PyNone THEN DictSet(d, k, v) ELSE d

\* if cond: d[k] = v
SetIf(d, cond, k, v) == IF Truthy(cond) THEN DictSet(d, k, v) ELSE d

\* The two ways a call or an awaited operation ends.
Return(v) == [kind |-> "return", value |-> v]

Raise(t, m) == [kind |-> "raise", type |-> t, message |-> m]

BASE_URL == "https://api.adzuna.com/v1/api"

(***************************************************************************)
(* Inputs: the process environment, the tool arguments and what the        *)
(* network delivers.                                                       *)
(***************************************************************************)
\* os.getenv gives None for a variable that is not set.
EnvIds == {PyNone, PyStr(""), PyStr("test_app_id")}

EnvKeys == {PyNone, PyStr(""), PyStr("test_app_key")}

SUPPORTED_COUNTRIES ==
  {"gb", "us", "de", "fr", "au", "nz", "ca", "in", "pl", "br", "at", "za"}

\* A supported country code and one that is not.
Countries == {"gb", "xx"}

Pages == {1, 2}

PageSizes == {0, 10, 51}

\* For each optional argument, a supplied value Python treats as false ...
FalsyValue ==
  [keywords |-> PyStr(""), location |-> PyStr(""), category |-> PyStr(""),
   sort_by |-> PyStr(""), salary_min |-> PyInt(0), salary_max |-> PyInt(0),
   max_days_old |-> PyInt(0), months |-> PyInt(0),
   full_time |-> PyBool(FALSE), part_time |-> PyBool(FALSE),
   contract |-> PyBool(FALSE), permanent |-> PyBool(FALSE)]

\* ... and one it treats as true.
TruthyValue ==
  [keywords |-> PyStr("python"), location |-> PyStr("London"),
   category |-> PyStr("it-jobs"), sort_by |-> PyStr("salary"),
   salary_min |-> PyInt(50000), salary_max |-> PyInt(90000),
   max_days_old |-> PyInt(7), months |-> PyInt(12),
   full_time |-> PyBool(TRUE), part_time |-> PyBool(TRUE),
   contract |-> PyBool(TRUE), permanent |-> PyBool(TRUE)]

\* The optional arguments `names`, each left at its default None unless it is
\* one of the at most MaxOptionalArgs the caller passes.
OptionalArgs(names) ==
  UNION { { [k \in names |-> IF k \in S
                               THEN IF g[k] THEN TruthyValue[k] ELSE FalsyValue[k]
                               ELSE PyNone] : g \in [S -> BOOLEAN] }
          : S \in {X \in SUBSET names : Cardinality(X) <= MaxOptionalArgs} }

SearchOptionals ==
  {"keywords", "location", "salary_min", "salary_max", "full_time", "part_time",
   "contract", "permanent", "category", "sort_by", "max_days_old"}

FilterOptionals == {"keywords", "location", "category"}

HistoryOptionals == {"keywords", "location", "category", "months"}

SearchArgs ==
  { o @@ [country |-> c, page |-> p, results_per_page |-> n] :
      o \in OptionalArgs(SearchOptionals), c \in Countries, p \in Pages,
      n \in PageSizes }

FilterArgs ==
  { o @@ [country |-> c] : o \in OptionalArgs(FilterOptionals), c \in Countries }

HistoryArgs ==
  { o @@ [country |-> c] : o \in OptionalArgs(HistoryOptionals), c \in Countries }

CountryArgs == { [country |-> c] : c \in Countries }

\* The calls of the invocations that run concurrently.
ConcSearchArgs ==
  { [k \in SearchOptionals |-> IF k \in S THEN TruthyValue[k] ELSE PyNone]
      @@ [country |-> "gb", page |-> 1, results_per_page |-> n] :
      S \in SUBSET {"keywords", "salary_min", "full_time"}, n \in {10, 51} }

ConcHistoryArgs ==
  { [k \in HistoryOptionals |-> IF k \in S THEN TruthyValue[k] ELSE PyNone]
      @@ [country |-> "gb"] : S \in SUBSET {"location", "months"} }

StatusCodes == {200, 201, 299, 300, 401, 429, 500}

\* A response body: JSON text with the value response.json() parses it to, or
\* text that is not JSON.
Bodies ==
  { <<"json", PyDict([display |-> PyStr("Invalid credentials")])>>,
    <<"json", PyDict([display |-> PyStr("Too many requests")])>>,
    <<"json", PyDict([count |-> PyInt(523)])>>,
    <<"json", PyList(<<>>)>>,
    <<"text", "<html>Bad Gateway</html>">> }

Responses == [status_code : StatusCodes, body : Bodies]

\* What client.get raises when no response is obtained.
TransportErrors ==
  { Raise("ConnectError", <<"All connection attempts failed">>),
    Raise("ReadTimeout", <<"">>) }

\* The parameter mappings and endpoints of a direct call of the dispatcher.
DirectKeys == {"what", "where", "app_id", "app_key"}

DirectValues == {PyStr("python"), PyStr("other")}

DirectParams ==
  {PyNone} \cup { PyDict(f) : f \in UNION { [S -> DirectValues] : S \in SUBSET DirectKeys } }

DirectEndpoints == {"jobs/gb/search/1", "jobs/gb/categories"}

(***************************************************************************)
(* State.                                                                  *)
(***************************************************************************)
NoRequest == [method |-> "", url |-> "", params |-> EmptyMap, timeout |-> 0]

NoResponse == [status_code |-> 0, body |-> <<"none">>]

NoOutcome == [kind |-> "none"]

Idle ==
  [pc |-> "idle", tool |-> "", args |-> EmptyMap, request |-> NoRequest,
   sent |-> 0, response |-> NoResponse, outcome |-> NoOutcome]

\* Two invocation slots, for the invocations that run concurrently.
ConcInit ==
  /\ env \in [ADZUNA_APP_ID : EnvIds, ADZUNA_APP_KEY : EnvKeys]
  /\ proc = "boot"
  /\ startup_error = NoOutcome
  /\ ADZUNA_APP_ID = PyNone
  /\ ADZUNA_APP_KEY = PyNone
  /\ inv = [i \in {1, 2} |-> Idle]

Init ==
  /\ env \in [ADZUNA_APP_ID : EnvIds, ADZUNA_APP_KEY : EnvKeys]
  /\ proc = "boot"
  /\ startup_error = NoOutcome
  /\ ADZUNA_APP_ID = PyNone
  /\ ADZUNA_APP_KEY = PyNone
  /\ inv = [i \in {1} |-> Idle]

\* The check with `and` in place of `or`.
CredentialsMissing_Both(app_id, app_key) == ~Truthy(app_id) /\ ~Truthy(app_key)

\* not ADZUNA_APP_ID or not ADZUNA_APP_KEY
CredentialsMissing(app_id, app_key) == ~Truthy(app_id) \/ ~Truthy(app_key)

\* The error the import raises when a credential is missing.
MissingCredentialsError ==
  Raise("ValueError",
        <<"Missing Adzuna API credentials. ",
          "Please set ADZUNA_APP_ID and ADZUNA_APP_KEY in your .env file.">>)

\* Module import: the credentials are read from the environment and checked
\* before the server and its tools are created.
Startup ==
  /\ proc = "boot"
  /\ ADZUNA_APP_ID' = env.ADZUNA_APP_ID
  /\ ADZUNA_APP_KEY' = env.ADZUNA_APP_KEY
  /\ IF CredentialsMissing(env.ADZUNA_APP_ID, env.ADZUNA_APP_KEY)
     THEN proc' = "refused" /\ startup_error' = MissingCredentialsError
     ELSE proc' = "running" /\ startup_error' = NoOutcome
  /\ UNCHANGED <<env, inv>>

(***************************************************************************)
(* The request dispatcher.                                                 *)
(***************************************************************************)
\* The credentials under each other's key.
get_auth_params_Swapped ==
  [app_id |-> ADZUNA_APP_KEY, app_key |-> ADZUNA_APP_ID]

get_auth_params ==
  [app_id |-> ADZUNA_APP_ID, app_key |-> ADZUNA_APP_KEY]

\* The merge the other way round: params.update(auth_params).
QueryParams_AuthWins(params) ==
  LET auth_params == get_auth_params
  IN IF Truthy(params) THEN DictUpdate(params[2], auth_params) ELSE auth_params

\* One mapping kept between calls and updated in place: a request in flight
\* has left its parameters in it.
QueryParams_Shared(params) ==
  LET others == {j \in DOMAIN inv : inv[j].pc = "awaiting"}
      auth_params == IF others = {}
                     THEN get_auth_params
                     ELSE inv[CHOOSE j \in others : TRUE].request.params
  IN IF Truthy(params) THEN DictUpdate(auth_params, params[2]) ELSE auth_params

\* The query mapping of the outbound request.
QueryParams(params) ==
  LET auth_params == get_auth_params
  IN IF Truthy(params) THEN DictUpdate(auth_params, params[2]) ELSE auth_params

\* The arguments of client.get.
GetRequest(endpoint, params) ==
  [method |-> "GET", url |-> BASE_URL \o "/" \o endpoint,
   params |-> QueryParams(params), timeout |-> 30]

\* response.json()
json(response) ==
  IF response.body[1] = "json"
  THEN Return(response.body[2])
  ELSE Raise("JSONDecodeError", <<"Expecting value">>)

\* The error message without the upstream text.
ApiErrorMessage_StatusOnly(status_code, display) ==
  <<"API Error ", ToString(status_code)>>

\* The f-string of the raised exception, as its pieces in order.
ApiErrorMessage(status_code, display) ==
  <<"API Error ", ToString(status_code), ": ", Str(display)>>

\* make_request from the response on: the status check and the result.
HandleResponse(response) ==
  IF response.status_code # 200
  THEN LET error_data == json(response)
       IN IF error_data.kind = "raise"
          THEN error_data
          ELSE IF error_data.value[1] # "dict"
               THEN Raise("AttributeError", <<"object has no attribute 'get'">>)
               ELSE Raise("Exception",
                          ApiErrorMessage(response.status_code,
                                          DictGet(error_data.value[2], "display",
                                                  PyStr("Unknown error"))))
  ELSE json(response)

\* A tool can be invoked once the server exists; the invocation's coroutine
\* starts at the top of the tool's body.
Ready(i) == proc = "running" /\ inv[i].pc = "idle"

\* make_request up to its suspension at `await client.get(...)`, on behalf of
\* invocation i of `tool` with arguments `args`.
make_request(i, tool, args, endpoint, params) ==
  /\ Ready(i)
  /\ inv' = [inv EXCEPT ![i] =
              [pc |-> "awaiting", tool |-> tool, args |-> args,
               request |-> GetRequest(endpoint, params), sent |-> @.sent + 1,
               response |-> NoResponse, outcome |-> NoOutcome]]
  /\ UNCHANGED <<env, proc, startup_error, ADZUNA_APP_ID, ADZUNA_APP_KEY>>

\* A dispatcher that issues the request once more after a failure.
Completed_Retry(slot, response, outcome) ==
  IF outcome.kind = "raise" /\ slot.sent < 2
  THEN [slot EXCEPT !.sent = @ + 1]
  ELSE [pc |-> "done", tool |-> slot.tool, args |-> EmptyMap, request |-> NoRequest,
        sent |-> slot.sent, response |-> response, outcome |-> outcome]

\* A tool that catches a failure and returns an empty result in its place.
Completed_Fallback(slot, response, outcome) ==
  [pc |-> "done", tool |-> slot.tool, args |-> EmptyMap, request |-> NoRequest,
   sent |-> slot.sent, response |-> response,
   outcome |-> IF outcome.kind = "raise" THEN Return(PyDict(EmptyMap)) ELSE outcome]

\* A dispatcher that reports every failure as an API error.
Completed_WrapsEveryError(slot, response, outcome) ==
  [pc |-> "done", tool |-> slot.tool, args |-> EmptyMap, request |-> NoRequest,
   sent |-> slot.sent, response |-> response,
   outcome |-> IF outcome.kind = "raise"
               THEN Raise("Exception",
                          <<"API Error ", ToString(response.status_code), ": ",
                            "Unknown error">>)
               ELSE outcome]

\* An invocation whose awaited client.get has ended: no statement of
\* make_request or of a tool catches an exception or issues another request,
\* so the invocation ends with make_request's result.
Completed(slot, response, outcome) ==
  [pc |-> "done", tool |-> slot.tool, args |-> EmptyMap, request |-> NoRequest,
   sent |-> slot.sent, response |-> response, outcome |-> outcome]

\* The awaited client.get delivers `response`; make_request runs to its end
\* and the tool returns or fails with make_request's result.
Respond(i) ==
  /\ inv[i].pc = "awaiting"
  /\ \E response \in Responses :
       inv' = [inv EXCEPT ![i] = Completed(@, response, HandleResponse(response))]
  /\ UNCHANGED <<env, proc, startup_error, ADZUNA_APP_ID, ADZUNA_APP_KEY>>

\* The awaited client.get raises; the exception leaves make_request and the
\* tool.
TransportFailure(i) ==
  /\ inv[i].pc = "awaiting"
  /\ \E error \in TransportErrors :
       inv' = [inv EXCEPT ![i] = Completed(@, NoResponse, error)]
  /\ UNCHANGED <<env, proc, startup_error, ADZUNA_APP_ID, ADZUNA_APP_KEY>>

\* The caller has taken the result; the invocation's frame is gone.
Finish(i) ==
  /\ inv[i].pc = "done"
  /\ inv' = [inv EXCEPT ![i] = Idle]
  /\ UNCHANGED <<env, proc, startup_error, ADZUNA_APP_ID, ADZUNA_APP_KEY>>

(***************************************************************************)
(* The tool wrappers.                                                      *)
(***************************************************************************)
\* The flags sent as the booleans they are.
search_jobs_params_BoolValue(a) ==
  LET p0  == [results_per_page |-> PyInt(a.results_per_page)]
      p1  == SetIf(p0, a.keywords, "what", a.keywords)
      p2  == SetIf(p1, a.location, "where", a.location)
      p3  == SetIf(p2, a.salary_min, "salary_min", a.salary_min)
      p4  == SetIf(p3, a.salary_max, "salary_max", a.salary_max)
      p5  == SetIf(p4, a.full_time, "full_time", a.full_time)
      p6  == SetIf(p5, a.part_time, "part_time", a.part_time)
      p7  == SetIf(p6, a.contract, "contract", a.contract)
      p8  == SetIf(p7, a.permanent, "permanent", a.permanent)
      p9  == SetIf(p8, a.category, "category", a.category)
      p10 == SetIf(p9, a.sort_by, "sort_by", a.sort_by)
      p11 == SetIf(p10, a.max_days_old, "max_days_old", a.max_days_old)
  IN PyDict(p11)

\* The text filters sent under the names of the arguments.
search_jobs_params_ArgNames(a) ==
  LET p0  == [results_per_page |-> PyInt(a.results_per_page)]
      p1  == SetIf(p0, a.keywords, "keywords", a.keywords)
      p2  == SetIf(p1, a.location, "location", a.location)
      p3  == SetIf(p2, a.salary_min, "salary_min", a.salary_min)
      p4  == SetIf(p3, a.salary_max, "salary_max", a.salary_max)
      p5  == SetIf(p4, a.full_time, "full_time", PyStr("1"))
      p6  == SetIf(p5, a.part_time, "part_time", PyStr("1"))
      p7  == SetIf(p6, a.contract, "contract", PyStr("1"))
      p8  == SetIf(p7, a.permanent, "permanent", PyStr("1"))
      p9  == SetIf(p8, a.category, "category", a.category)
      p10 == SetIf(p9, a.sort_by, "sort_by", a.sort_by)
      p11 == SetIf(p10, a.max_days_old, "max_days_old", a.max_days_old)
  IN PyDict(p11)

\* The page size guarded like the other numbers: if results_per_page: ...
search_jobs_params_TruthyPageSize(a) ==
  LET p0  == SetIf(EmptyMap, PyInt(a.results_per_page), "results_per_page",
                   PyInt(a.results_per_page))
      p1  == SetIf(p0, a.keywords, "what", a.keywords)
      p2  == SetIf(p1, a.location, "where", a.location)
      p3  == SetIf(p2, a.salary_min, "salary_min", a.salary_min)
      p4  == SetIf(p3, a.salary_max, "salary_max", a.salary_max)
      p5  == SetIf(p4, a.full_time, "full_time", PyStr("1"))
      p6  == SetIf(p5, a.part_time, "part_time", PyStr("1"))
      p7  == SetIf(p6, a.contract, "contract", PyStr("1"))
      p8  == SetIf(p7, a.permanent, "permanent", PyStr("1"))
      p9  == SetIf(p8, a.category, "category", a.category)
      p10 == SetIf(p9, a.sort_by, "sort_by", a.sort_by)
      p11 == SetIf(p10, a.max_days_old, "max_days_old", a.max_days_old)
  IN PyDict(p11)

search_jobs_params(a) ==
  LET p0  == [results_per_page |-> PyInt(a.results_per_page)]
      p1  == SetIf(p0, a.keywords, "what", a.keywords)
      p2  == SetIf(p1, a.location, "where", a.location)
      p3  == SetIf(p2, a.salary_min, "salary_min", a.salary_min)
      p4  == SetIf(p3, a.salary_max, "salary_max", a.salary_max)
      p5  == SetIf(p4, a.full_time, "full_time", PyStr("1"))
      p6  == SetIf(p5, a.part_time, "part_time", PyStr("1"))
      p7  == SetIf(p6, a.contract, "contract", PyStr("1"))
      p8  == SetIf(p7, a.permanent, "permanent", PyStr("1"))
      p9  == SetIf(p8, a.category, "category", a.category)
      p10 == SetIf(p9, a.sort_by, "sort_by", a.sort_by)
      p11 == SetIf(p10, a.max_days_old, "max_days_old", a.max_days_old)
  IN PyDict(p11)

\* The endpoint with the page left at its default.
search_jobs_endpoint_FirstPage(a) ==
  "jobs/" \o a.country \o "/search/" \o ToString(1)

search_jobs_endpoint(a) ==
  "jobs/" \o a.country \o "/search/" \o ToString(a.page)

search_jobs(i) ==
  /\ Ready(i)
  /\ \E a \in SearchArgs :
       make_request(i, "search_jobs", a, search_jobs_endpoint(a),
                    search_jobs_params(a))

\* The endpoint with a mistyped last segment.
get_categories_endpoint_Typo(a) == "jobs/" \o a.country \o "/category"

get_categories_endpoint(a) == "jobs/" \o a.country \o "/categories"

get_categories(i) ==
  /\ Ready(i)
  /\ \E a \in CountryArgs :
       make_request(i, "get_categories", a, get_categories_endpoint(a), PyNone)

get_salary_histogram_params(a) ==
  LET p1 == SetIf(EmptyMap, a.keywords, "what", a.keywords)
      p2 == SetIf(p1, a.location, "where", a.location)
      p3 == SetIf(p2, a.category, "category", a.category)
  IN PyDict(p3)

get_salary_histogram_endpoint(a) == "jobs/" \o a.country \o "/histogram"

get_salary_histogram(i) ==
  /\ Ready(i)
  /\ \E a \in FilterArgs :
       make_request(i, "get_salary_histogram", a, get_salary_histogram_endpoint(a),
                    get_salary_histogram_params(a))

get_top_companies_params(a) ==
  LET p1 == SetIf(EmptyMap, a.keywords, "what", a.keywords)
      p2 == SetIf(p1, a.location, "where", a.location)
      p3 == SetIf(p2, a.category, "category", a.category)
  IN PyDict(p3)

get_top_companies_endpoint(a) == "jobs/" \o a.country \o "/top_companies"

get_top_companies(i) ==
  /\ Ready(i)
  /\ \E a \in FilterArgs :
       make_request(i, "get_top_companies", a, get_top_companies_endpoint(a),
                    get_top_companies_params(a))

get_geodata_params(a) ==
  LET p1 == SetIf(EmptyMap, a.keywords, "what", a.keywords)
      p2 == SetIf(p1, a.location, "where", a.location)
      p3 == SetIf(p2, a.category, "category", a.category)
  IN PyDict(p3)

get_geodata_endpoint(a) == "jobs/" \o a.country \o "/geodata"

get_geodata(i) ==
  /\ Ready(i)
  /\ \E a \in FilterArgs :
       make_request(i, "get_geodata", a, get_geodata_endpoint(a),
                    get_geodata_params(a))

\* The number of months sent under a key of the credentials.
get_salary_history_params_CredentialKey(a) ==
  LET p1 == SetIf(EmptyMap, a.keywords, "what", a.keywords)
      p2 == SetIf(p1, a.location, "where", a.location)
      p3 == SetIf(p2, a.category, "category", a.category)
      p4 == SetIf(p3, a.months, "app_id", a.months)
  IN PyDict(p4)

get_salary_history_params(a) ==
  LET p1 == SetIf(EmptyMap, a.keywords, "what", a.keywords)
      p2 == SetIf(p1, a.location, "where", a.location)
      p3 == SetIf(p2, a.category, "category", a.category)
      p4 == SetIf(p3, a.months, "months", a.months)
  IN PyDict(p4)

get_salary_history_endpoint(a) == "jobs/" \o a.country \o "/history"

get_salary_history(i) ==
  /\ Ready(i)
  /\ \E a \in HistoryArgs :
       make_request(i, "get_salary_history", a, get_salary_history_endpoint(a),
                    get_salary_history_params(a))

get_api_version(i) ==
  make_request(i, "get_api_version", EmptyMap, "version", PyNone)

\* A direct call of the dispatcher, as the repository's tests make it.
DirectCall(i) ==
  /\ Ready(i)
  /\ \E endpoint \in DirectEndpoints, params \in DirectParams :
       make_request(i, "make_request",
                    [endpoint |-> endpoint, params |-> params], endpoint, params)

(***************************************************************************)
(* Specifications.                                                         *)
(***************************************************************************)
Invocations == DOMAIN inv

\* The server: tool invocations, one at a time.
Next ==
  \/ Startup
  \/ \E i \in Invocations : search_jobs(i)
  \/ \E i \in Invocations : get_categories(i)
  \/ \E i \in Invocations : get_salary_histogram(i)
  \/ \E i \in Invocations : get_top_companies(i)
  \/ \E i \in Invocations : get_geodata(i)
  \/ \E i \in Invocations : get_salary_history(i)
  \/ \E i \in Invocations : get_api_version(i)
  \/ \E i \in Invocations : Respond(i)
  \/ \E i \in Invocations : TransportFailure(i)
  \/ \E i \in Invocations : Finish(i)

Spec == Init /\ [][Next]_vars

\* The server with two invocations in progress at once, each suspended only
\* at its network call.
ConcNext ==
  \/ Startup
  \/ \E i \in Invocations :
       /\ Ready(i)
       /\ \E a \in ConcSearchArgs :
            make_request(i, "search_jobs", a, search_jobs_endpoint(a),
                         search_jobs_params(a))
  \/ \E i \in Invocations :
       /\ Ready(i)
       /\ \E a \in ConcHistoryArgs :
            make_request(i, "get_salary_history", a, get_salary_history_endpoint(a),
                         get_salary_history_params(a))
  \/ \E i \in Invocations : get_api_version(i)
  \/ \E i \in Invocations : Respond(i)
  \/ \E i \in Invocations : TransportFailure(i)
  \/ \E i \in Invocations : Finish(i)

ConcSpec == ConcInit /\ [][ConcNext]_vars

\* The dispatcher alone, called with any parameter mapping.
DispatchNext ==
  \/ Startup
  \/ \E i \in Invocations : DirectCall(i)
  \/ \E i \in Invocations : Respond(i)
  \/ \E i \in Invocations : TransportFailure(i)
  \/ \E i \in Invocations : Finish(i)

DispatchSpec == Init /\ [][DispatchNext]_vars

(***************************************************************************)
(* Vocabulary of the properties.                                           *)
(***************************************************************************)
Contains(message, piece) == \E n \in 1..Len(message) : message[n] = piece

Success(status_code) == status_code \in 200..299

Awaiting(i) == inv[i].pc = "awaiting"

Done(i) == inv[i].pc = "done"

\* A completed invocation whose request was answered with a response.
Answered(i) == Done(i) /\ inv[i].response # NoResponse

JsonBody(i) == inv[i].response.body[1] = "json"

\* The response body is a JSON object with a `display` field.
HasDisplay(i) ==
  /\ JsonBody(i)
  /\ inv[i].response.body[2][1] = "dict"
  /\ "display" \in DOMAIN inv[i].response.body[2][2]

\* The upstream API error: its message names the status and carries `text`.
IsApiError(outcome, status_code, text) ==
  /\ outcome.kind = "raise"
  /\ outcome.type = "Exception"
  /\ Contains(outcome.message, "API Error ")
  /\ Contains(outcome.message, ToString(status_code))
  /\ Contains(outcome.message, text)

CredentialKeys == {"app_id", "app_key"}

Flags == {"full_time", "part_time", "contract", "permanent"}

\* The optional arguments of each tool and the query key of each argument.
ToolOptionals(tool) ==
  CASE tool = "search_jobs" -> SearchOptionals
    [] tool \in {"get_salary_histogram", "get_top_companies", "get_geodata"} ->
         FilterOptionals
    [] tool = "get_salary_history" -> HistoryOptionals
    [] OTHER -> {}

ApiKey(arg) ==
  CASE arg = "keywords" -> "what"
    [] arg = "location" -> "where"
    [] OTHER -> arg

(***************************************************************************)
(* Properties of the dispatcher's response handling.                       *)
(***************************************************************************)
\* C1: every response with a status in 200..299 and a JSON body makes
\* make_request return the parsed body as received, with no error.
C1_SuccessOnEvery2xx ==
  \A i \in Invocations :
    Answered(i) /\ Success(inv[i].response.status_code) /\ JsonBody(i)
      => inv[i].outcome = Return(inv[i].response.body[2])

\* C2: a response with a status outside 200..299 whose JSON body has a
\* `display` field d makes make_request fail, returning nothing, with an error
\* whose message contains the status code and d.
C2_ErrorCarriesStatusAndDisplay ==
  \A i \in Invocations :
    Answered(i) /\ ~Success(inv[i].response.status_code) /\ HasDisplay(i)
      => IsApiError(inv[i].outcome, inv[i].response.status_code,
                    inv[i].response.body[2][2].display[2])

C2_Witness ==
  \E i \in Invocations :
    /\ Answered(i)
    /\ inv[i].response.status_code = 401
    /\ inv[i].response.body = <<"json", PyDict([display |-> PyStr("Invalid credentials")])>>
    /\ inv[i].outcome.kind = "raise"
    /\ Contains(inv[i].outcome.message, "401")
    /\ Contains(inv[i].outcome.message, "Invalid credentials")

\* C3: a response with a status outside 200..299 whose body is JSON without a
\* `display` field makes make_request fail with the upstream API error carrying
\* the status code and the generic placeholder message.
C3_PlaceholderWithoutDisplay ==
  \A i \in Invocations :
    Answered(i) /\ ~Success(inv[i].response.status_code) /\ JsonBody(i)
                /\ ~HasDisplay(i)
      => IsApiError(inv[i].outcome, inv[i].response.status_code, "Unknown error")

\* C4: a response with a status outside 200..299 whose body is not JSON makes
\* make_request fail with the same upstream API error: the status code and the
\* generic placeholder message.
C4_PlaceholderForUnparseableBody ==
  \A i \in Invocations :
    Answered(i) /\ ~Success(inv[i].response.status_code) /\ ~JsonBody(i)
      => IsApiError(inv[i].outcome, inv[i].response.status_code, "Unknown error")

(***************************************************************************)
(* Properties of the outbound request.                                     *)
(***************************************************************************)
\* C5: every outbound request of a tool invocation, whatever calls came
\* before it, has app_id and app_key in its query mapping, equal to the
\* credentials the environment held at process start.
C5_CredentialsOnEveryRequest ==
  \A i \in Invocations :
    Awaiting(i) =>
      /\ CredentialKeys \subseteq DOMAIN inv[i].request.params
      /\ inv[i].request.params.app_id = env.ADZUNA_APP_ID
      /\ inv[i].request.params.app_key = env.ADZUNA_APP_KEY

C5_Witness ==
  \E i \in Invocations :
    /\ Awaiting(i)
    /\ inv[i].tool = "search_jobs"
    /\ inv[i].args.keywords = PyStr("python")
    /\ inv[i].request.params.what = PyStr("python")
    /\ inv[i].request.params.app_id = PyStr("test_app_id")
    /\ inv[i].request.params.app_key = PyStr("test_app_key")

\* The keys of the extra parameters a direct call of make_request passes.
ExtraKeys(params) == IF params[1] = "dict" THEN DOMAIN params[2] ELSE {}

\* C6: for every extraParams mapping passed to make_request, the query
\* mapping has exactly the keys {app_id, app_key} and those of extraParams,
\* every extraParams key with its supplied value, also where it is app_id or
\* app_key.
C6_QueryIsCredentialsUpdatedByExtras ==
  \A i \in Invocations :
    Awaiting(i) /\ inv[i].tool = "make_request" =>
      LET extra == inv[i].args.params
          query == inv[i].request.params
      IN /\ DOMAIN query = CredentialKeys \cup ExtraKeys(extra)
         /\ \A k \in ExtraKeys(extra) : query[k] = extra[2][k]
         /\ \A k \in CredentialKeys \ ExtraKeys(extra) : query[k] = get_auth_params[k]

C6_Witness ==
  \E i \in Invocations :
    /\ Awaiting(i)
    /\ inv[i].tool = "make_request"
    /\ ExtraKeys(inv[i].args.params) = {"what", "app_id"}
    /\ inv[i].request.params.app_id = PyStr("other")
    /\ inv[i].request.params.app_id # ADZUNA_APP_ID
    /\ inv[i].request.params.app_key = ADZUNA_APP_KEY
    /\ inv[i].request.params.what = PyStr("python")

\* C7: an invocation issues exactly one HTTP GET, whatever its outcome: a
\* return, an upstream API error or a transport failure; a failed request is
\* not issued again.
C7_ExactlyOneGet ==
  \A i \in Invocations :
    /\ inv[i].pc = "idle" => inv[i].sent = 0
    /\ Awaiting(i) \/ Done(i) => inv[i].sent = 1
    /\ Awaiting(i) => inv[i].request.method = "GET"

C7_Witness ==
  \E i \in Invocations :
    /\ Done(i)
    /\ inv[i].outcome.kind = "raise"
    /\ inv[i].outcome.type = "ReadTimeout"
    /\ inv[i].sent = 1

(***************************************************************************)
(* Properties of the tool wrappers.                                        *)
(***************************************************************************)
\* C8: for every tool, an optional argument left unset (None) or given as an
\* empty string has no key in the query mapping; a call with no optional
\* argument sends the credentials only (and, for search_jobs, the page size).
C8_UnsetOrEmptyIsOmitted ==
  \A i \in Invocations :
    Awaiting(i) /\ inv[i].tool # "make_request" =>
      LET opts == ToolOptionals(inv[i].tool)
          a == inv[i].args
          query == inv[i].request.params
      IN /\ \A k \in opts :
              a[k] \in {PyNone, PyStr("")} => ApiKey(k) \notin DOMAIN query
         /\ (\A k \in opts : a[k] = PyNone) =>
              DOMAIN query = CredentialKeys \cup
                (IF inv[i].tool = "search_jobs" THEN {"results_per_page"} ELSE {})

C8_Witness ==
  \E i \in Invocations :
    /\ Awaiting(i)
    /\ inv[i].tool = "get_salary_history"
    /\ inv[i].args.keywords = PyStr("")
    /\ inv[i].args.location = PyNone
    /\ inv[i].args.category = PyStr("it-jobs")
    /\ inv[i].args.months = PyNone
    /\ DOMAIN inv[i].request.params = CredentialKeys \cup {"category"}

\* C9: in search_jobs, each of full_time, part_time, contract and permanent
\* on its own: true puts the key in the query mapping with the string "1";
\* false or unset leaves the key out.
C9_FlagsAreOneOrAbsent ==
  \A i \in Invocations :
    Awaiting(i) /\ inv[i].tool = "search_jobs" =>
      \A f \in Flags :
        IF inv[i].args[f] = PyBool(TRUE)
        THEN f \in DOMAIN inv[i].request.params
             /\ inv[i].request.params[f] = PyStr("1")
        ELSE f \notin DOMAIN inv[i].request.params

C9_Witness ==
  \E i \in Invocations :
    /\ Awaiting(i)
    /\ inv[i].tool = "search_jobs"
    /\ inv[i].args.full_time = PyBool(TRUE)
    /\ inv[i].args.part_time = PyBool(FALSE)
    /\ inv[i].args.contract = PyNone
    /\ inv[i].args.permanent = PyBool(TRUE)
    /\ inv[i].request.params.full_time = PyStr("1")
    /\ inv[i].request.params.permanent = PyStr("1")
    /\ DOMAIN inv[i].request.params \cap Flags = {"full_time", "permanent"}

\* The text and number arguments, sent with their value.
ValueOptionals(tool) == ToolOptionals(tool) \ Flags

\* An argument k of invocation i is in the query under its API key, unchanged.
SentUnchanged(i, k) ==
  /\ ApiKey(k) \in DOMAIN inv[i].request.params
  /\ inv[i].request.params[ApiKey(k)] = inv[i].args[k]

\* The argument names that are not key names.
NeverSent(i) == {"keywords", "location"} \cap DOMAIN inv[i].request.params = {}

\* C10, as claimed: salary_min and salary_max, both supplied, are both in the
\* query with those values; every non-empty keywords, location, category,
\* sort_by and non-zero max_days_old, months is in the query under its API key
\* with its value; the keys keywords and location are never sent.
C10_SuppliedSalariesAreSent ==
  \A i \in Invocations :
    Awaiting(i) /\ inv[i].tool # "make_request" =>
      /\ \A k \in ValueOptionals(inv[i].tool) \ {"salary_min", "salary_max"} :
           Truthy(inv[i].args[k]) => SentUnchanged(i, k)
      /\ inv[i].tool = "search_jobs"
           /\ inv[i].args.salary_min # PyNone /\ inv[i].args.salary_max # PyNone
           => SentUnchanged(i, "salary_min") /\ SentUnchanged(i, "salary_max")
      /\ NeverSent(i)

\* C10, amended: the same for salary_min and salary_max supplied with
\* non-zero values.
C10_NonZeroSalariesAreSent ==
  \A i \in Invocations :
    Awaiting(i) /\ inv[i].tool # "make_request" =>
      /\ \A k \in ValueOptionals(inv[i].tool) \ {"salary_min", "salary_max"} :
           Truthy(inv[i].args[k]) => SentUnchanged(i, k)
      /\ inv[i].tool = "search_jobs"
           /\ Truthy(inv[i].args.salary_min) /\ Truthy(inv[i].args.salary_max)
           => SentUnchanged(i, "salary_min") /\ SentUnchanged(i, "salary_max")
      /\ NeverSent(i)

C10_Witness ==
  \E i \in Invocations :
    /\ Awaiting(i)
    /\ inv[i].tool = "search_jobs"
    /\ inv[i].args.salary_min = PyInt(50000)
    /\ inv[i].args.salary_max = PyInt(90000)
    /\ inv[i].args.keywords = PyStr("python")
    /\ inv[i].request.params.salary_min = PyInt(50000)
    /\ inv[i].request.params.salary_max = PyInt(90000)
    /\ inv[i].request.params.what = PyStr("python")

(***************************************************************************)
(* Properties of the request target.                                       *)
(***************************************************************************)
\* C11: get_categories(c) sends its request to exactly
\* {BASE_URL}/jobs/c/categories with app_id and app_key in the query mapping
\* and no other key; get_api_version sends the credentials only, too.
C11_CategoriesTargetAndCredentialsOnly ==
  \A i \in Invocations :
    Awaiting(i) =>
      /\ inv[i].tool = "get_categories" =>
           /\ inv[i].request.url =
                "https://api.adzuna.com/v1/api/jobs/" \o inv[i].args.country
                  \o "/categories"
           /\ DOMAIN inv[i].request.params = CredentialKeys
      /\ inv[i].tool = "get_api_version" =>
           DOMAIN inv[i].request.params = CredentialKeys

C11_Witness ==
  \E i \in Invocations :
    /\ Awaiting(i)
    /\ inv[i].tool = "get_categories"
    /\ inv[i].args.country = "gb"
    /\ inv[i].request.url = "https://api.adzuna.com/v1/api/jobs/gb/categories"
    /\ DOMAIN inv[i].request.params = {"app_id", "app_key"}

\* The path each tool's template gives for the arguments a.
TemplatePath(tool, a) ==
  CASE tool = "search_jobs" ->
         "jobs/" \o a.country \o "/search/" \o ToString(a.page)
    [] tool = "get_categories" -> "jobs/" \o a.country \o "/categories"
    [] tool = "get_salary_histogram" -> "jobs/" \o a.country \o "/histogram"
    [] tool = "get_top_companies" -> "jobs/" \o a.country \o "/top_companies"
    [] tool = "get_geodata" -> "jobs/" \o a.country \o "/geodata"
    [] tool = "get_salary_history" -> "jobs/" \o a.country \o "/history"
    [] tool = "get_api_version" -> "version"

\* C12: for every tool and every country string, in the supported-country
\* table or not, the request target is {BASE_URL}/ followed by the tool's
\* template with the country, and for search the page, put in as given.
C12_TargetFollowsTemplate ==
  \A i \in Invocations :
    Awaiting(i) /\ inv[i].tool # "make_request" =>
      inv[i].request.url =
        "https://api.adzuna.com/v1/api/" \o TemplatePath(inv[i].tool, inv[i].args)

C12_Witness ==
  \E i \in Invocations :
    /\ Awaiting(i)
    /\ inv[i].tool = "search_jobs"
    /\ inv[i].args.country \notin SUPPORTED_COUNTRIES
    /\ inv[i].args.page = 2
    /\ inv[i].request.url = "https://api.adzuna.com/v1/api/jobs/xx/search/2"

(***************************************************************************)
(* Properties of startup and of how an invocation ends.                    *)
(***************************************************************************)
\* A credential that is not set or is empty.
Missing(v) == v \in {PyNone, PyStr("")}

\* C13: with ADZUNA_APP_ID or ADZUNA_APP_KEY missing or empty at process
\* start, startup fails with an error that names the two settings, the
\* server and its tools never exist, and so no request is ever issued with
\* app_id or app_key missing or empty.
C13_MissingCredentialsRefuseStartup ==
  /\ proc # "boot" =>
       (proc = "refused" <=>
          Missing(env.ADZUNA_APP_ID) \/ Missing(env.ADZUNA_APP_KEY))
  /\ proc = "refused" =>
       /\ startup_error.kind = "raise"
       /\ startup_error.type = "ValueError"
       /\ Contains(startup_error.message, "Missing Adzuna API credentials. ")
  /\ proc # "refused" => startup_error = NoOutcome
  /\ \A i \in Invocations :
       /\ Missing(env.ADZUNA_APP_ID) \/ Missing(env.ADZUNA_APP_KEY) =>
            inv[i].pc = "idle" /\ inv[i].sent = 0
       /\ Awaiting(i) =>
            /\ ~Missing(inv[i].request.params.app_id)
            /\ ~Missing(inv[i].request.params.app_key)

C13_Witness ==
  /\ proc = "refused"
  /\ env.ADZUNA_APP_ID = PyStr("test_app_id")
  /\ env.ADZUNA_APP_KEY = PyStr("")
  /\ startup_error.kind = "raise"
  /\ \A i \in Invocations : inv[i].pc = "idle"

SevenTools ==
  {"search_jobs", "get_categories", "get_salary_histogram", "get_top_companies",
   "get_geodata", "get_salary_history", "get_api_version"}

\* C14: each tool's invocation ends as the dispatcher ends: with the body
\* make_request returns, unchanged, or with the error make_request fails with;
\* no tool catches an error or puts a fallback value in its place.
C14_ToolEndsAsDispatcherEnds ==
  \A i \in Invocations :
    Done(i) /\ inv[i].tool \in SevenTools =>
      /\ Answered(i) => inv[i].outcome = HandleResponse(inv[i].response)
      /\ Answered(i) /\ inv[i].response.status_code = 200 /\ JsonBody(i) =>
           inv[i].outcome = Return(inv[i].response.body[2])
      /\ Answered(i) /\ inv[i].response.status_code # 200 =>
           inv[i].outcome.kind = "raise"
      /\ ~Answered(i) => inv[i].outcome \in TransportErrors

C14_Witness ==
  \E i \in Invocations :
    /\ Done(i)
    /\ inv[i].tool = "search_jobs"
    /\ inv[i].response.status_code = 200
    /\ inv[i].response.body = <<"json", PyDict([count |-> PyInt(523)])>>
    /\ inv[i].outcome = Return(PyDict([count |-> PyInt(523)]))

\* C15: when client.get ends with a network failure or a timeout and no
\* response, the invocation fails, returning nothing, with that failure: an
\* error that is not of the `API Error <status>: ...` shape; the request is not
\* issued again.
C15_TransportFailurePropagates ==
  \A i \in Invocations :
    /\ Done(i) /\ ~Answered(i) =>
         /\ inv[i].outcome.kind = "raise"
         /\ inv[i].outcome.type \in {"ConnectError", "ReadTimeout"}
         /\ ~Contains(inv[i].outcome.message, "API Error ")
         /\ inv[i].sent = 1
    /\ Done(i) /\ inv[i].outcome.kind = "raise"
               /\ Contains(inv[i].outcome.message, "API Error ") => Answered(i)

C15_Witness ==
  \E i \in Invocations :
    /\ Done(i)
    /\ ~Answered(i)
    /\ inv[i].tool = "get_geodata"
    /\ inv[i].outcome = Raise("ConnectError", <<"All connection attempts failed">>)
    /\ inv[i].sent = 1

(***************************************************************************)
(* Further properties of the tool wrappers.                                *)
(***************************************************************************)
NumericOptionals == {"salary_min", "salary_max", "max_days_old", "months"}

\* C16: a numeric optional argument supplied as 0 counts as not supplied:
\* salary_min, salary_max and max_days_old of search_jobs and months of
\* get_salary_history leave their key out of the query instead of sending 0.
C16_ZeroIsOmitted ==
  \A i \in Invocations :
    Awaiting(i) /\ inv[i].tool # "make_request" =>
      \A k \in ToolOptionals(inv[i].tool) \cap NumericOptionals :
        inv[i].args[k] = PyInt(0) => k \notin DOMAIN inv[i].request.params

C16_Witness ==
  \E i \in Invocations :
    /\ Awaiting(i)
    /\ inv[i].tool = "search_jobs"
    /\ inv[i].args.salary_min = PyInt(0)
    /\ inv[i].args.salary_max = PyInt(90000)
    /\ inv[i].args.max_days_old = PyInt(0)
    /\ DOMAIN inv[i].request.params =
         CredentialKeys \cup {"results_per_page", "salary_max"}

\* C18: search_jobs always sends results_per_page with the caller's value,
\* also 0 and values above 50: it is never left out, clamped or changed.
C18_PageSizeAlwaysSentAsGiven ==
  \A i \in Invocations :
    Awaiting(i) /\ inv[i].tool = "search_jobs" =>
      /\ "results_per_page" \in DOMAIN inv[i].request.params
      /\ inv[i].request.params.results_per_page = PyInt(inv[i].args.results_per_page)

C18_Witness ==
  \E i \in Invocations :
    /\ Awaiting(i)
    /\ inv[i].tool = "search_jobs"
    /\ inv[i].args.results_per_page = 0
    /\ inv[i].request.params.results_per_page = PyInt(0)

\* The extra-parameter mapping the wrapper of `tool` builds from a.
WrapperParams(tool, a) ==
  CASE tool = "search_jobs" -> search_jobs_params(a)
    [] tool = "get_salary_histogram" -> get_salary_histogram_params(a)
    [] tool = "get_top_companies" -> get_top_companies_params(a)
    [] tool = "get_geodata" -> get_geodata_params(a)
    [] tool = "get_salary_history" -> get_salary_history_params(a)
    [] OTHER -> PyNone

\* C19: for every tool and every combination of argument values, the
\* extra-parameter mapping of the wrapper has neither app_id nor app_key as a
\* key, so the query carries the configured credentials.
C19_WrappersNeverNameCredentials ==
  \A i \in Invocations :
    Awaiting(i) /\ inv[i].tool \in SevenTools =>
      /\ CredentialKeys \cap ExtraKeys(WrapperParams(inv[i].tool, inv[i].args)) = {}
      /\ CredentialKeys \subseteq DOMAIN inv[i].request.params
      /\ inv[i].request.params.app_id = ADZUNA_APP_ID
      /\ inv[i].request.params.app_key = ADZUNA_APP_KEY

C19_Witness ==
  \E i \in Invocations :
    /\ Awaiting(i)
    /\ inv[i].tool = "get_salary_history"
    /\ inv[i].args.months = PyInt(12)
    /\ inv[i].args.keywords = PyStr("python")
    /\ ExtraKeys(WrapperParams(inv[i].tool, inv[i].args)) = {"what", "months"}
    /\ inv[i].request.params.app_id = ADZUNA_APP_ID

(***************************************************************************)
(* Properties of concurrent invocations.                                   *)
(***************************************************************************)
\* The query of invocation i has the configured credentials and, beyond
\* them, only keys and values of i's own arguments.
OwnParametersOnly(i) ==
  LET a == inv[i].args
      query == inv[i].request.params
  IN /\ CredentialKeys \subseteq DOMAIN query
     /\ query.app_id = ADZUNA_APP_ID
     /\ query.app_key = ADZUNA_APP_KEY
     /\ \A key \in DOMAIN query \ CredentialKeys :
          \/ /\ key = "results_per_page"
             /\ inv[i].tool = "search_jobs"
             /\ query[key] = PyInt(a.results_per_page)
          \/ \E k \in ToolOptionals(inv[i].tool) :
               /\ ApiKey(k) = key
               /\ Truthy(a[k])
               /\ query[key] = IF k \in Flags THEN PyStr("1") ELSE a[k]

\* C17: under every interleaving of two invocations, each suspended only at
\* its network call, every query mapping has only the credentials and the
\* parameters of its own invocation, each invocation ends with the result of
\* the response to its own request, and an invocation that has ended leaves
\* nothing behind for a later one.
C17_InvocationsAreIsolated ==
  \A i \in Invocations :
    /\ Awaiting(i) => OwnParametersOnly(i)
    /\ Answered(i) => inv[i].outcome = HandleResponse(inv[i].response)
    /\ inv[i].pc = "idle" => inv[i] = Idle

C17_Witness ==
  /\ Awaiting(1)
  /\ inv[1].tool = "search_jobs"
  /\ inv[1].args.keywords = PyStr("python")
  /\ inv[1].args.results_per_page = 51
  /\ DOMAIN inv[1].request.params = CredentialKeys \cup {"results_per_page", "what"}
  /\ Awaiting(2)
  /\ inv[2].tool = "get_salary_history"
  /\ inv[2].args.months = PyInt(12)
  /\ DOMAIN inv[2].request.params = CredentialKeys \cup {"months"}

====
